---------------------------- MODULE Spec2Model ----------------------------
(***************************************************************************)
(* A model of BarnetCrimeDashboard.py: the coordinate parser               *)
(* (extract_lat_lon), the live crime fetch (fetch_crime_data) and its      *)
(* callback (update_crime_map), the start-up spatial join of LSOAs with    *)
(* wards (gpd.sjoin, how="left", predicate="intersects") and the decile    *)
(* colour function of update_variable_map (np.percentile + get_color),     *)
(* the module from import to serving (the four try blocks and app.layout), *)
(* the callbacks on the joined table, and map callbacks that save and read *)
(* their fixed-name file while another request is served.                  *)
(*                                                                         *)
(* Numbers: coordinates are integers in hundredths of a degree; percentile *)
(* thresholds are exact rationals held as integers in tenths (Scale).      *)
(***************************************************************************)
EXTENDS Integers, Sequences, FiniteSets, TLC

VARIABLES
    \* ---- Coordinate parser called on one raw location string
    location_str,      \* the argument of extract_lat_lon
    parse_pc,          \* "call" | "returned" | "raised"
    parse_ret,         \* outcome of the call: [exc, lat, lon]
    \* ---- update_crime_map / fetch_crime_data
    pc,                \* position of the callback
    n_clicks,          \* Input('submit-date-button', 'n_clicks')
    date_input,        \* State('date-input', 'value')
    selected_category, \* State('crime-category-dropdown', 'value')
    response,          \* outcome of requests.get(url)
    crime_data,        \* the DataFrame fetch_crime_data returned
    fetch_exc,         \* the exception fetch_crime_data let escape, or "none"
    log,               \* logger.error entries, in order
    cb_out,            \* what update_crime_map returned / raised
    \* ---- start-up load of the boundaries and the spatial join
    load_pc,           \* "start" | "loaded" | "joined"
    lsoa_gdf,          \* the LSOA features, in file order
    wards_gdf,         \* the ward features, in file order
    df,                \* the joined table without its geometry column
    \* ---- update_variable_map
    map_pc,            \* "idle" | "rendered"
    selected_variable, \* Input('map-variable-dropdown', 'value')
    values,            \* the selected attribute of every LSOA feature, in file order
    thresholds,        \* the ten decile thresholds, in tenths
    fill_colors,       \* fillColor of every LSOA feature of the rendered map
    probe,             \* a value get_color is applied to
    probe_color,       \* what get_color returned for it
    \* ---- the module as a whole: start-up, layout and the callbacks
    app_pc,            \* the statement the interpreter is at, "serving" or "crashed"
    documents,         \* what the three URLs delivered
    globals,           \* the module namespace: the names bound so far
    app_log,           \* logger.error entries of the module-level code
    layout,            \* app.layout, once it is built
    call,              \* the callback Dash invoked last, with its arguments
    ret,               \* what that callback returned or raised
    \* ---- map callbacks that run at the same time
    files,             \* the working directory: what each map file holds
    requests           \* the map callbacks in progress, one per request

parse_vars == <<location_str, parse_pc, parse_ret>>
crime_vars == <<pc, n_clicks, date_input, selected_category, response, crime_data,
               fetch_exc, log, cb_out>>

join_vars == <<load_pc, lsoa_gdf, wards_gdf, df>>

color_vars == <<map_pc, selected_variable, values, thresholds, fill_colors, probe, probe_color>>

app_vars == <<app_pc, documents, globals, app_log, layout, call, ret>>

file_vars == <<files, requests>>

vars == <<parse_vars, crime_vars, join_vars, color_vars, app_vars, file_vars>>

\* What each group of operations leaves alone.
not_parse_vars == <<crime_vars, join_vars, color_vars, app_vars, file_vars>>
not_crime_vars == <<parse_vars, join_vars, color_vars, app_vars, file_vars>>
not_join_vars  == <<parse_vars, crime_vars, color_vars, app_vars, file_vars>>
not_color_vars == <<parse_vars, crime_vars, join_vars, app_vars, file_vars>>
not_app_vars   == <<parse_vars, crime_vars, join_vars, color_vars, file_vars>>
not_file_vars  == <<parse_vars, crime_vars, join_vars, color_vars, app_vars>>

-----------------------------------------------------------------------------
(* Python values and exceptions                                            *)

\* A call's outcome: exc = "none" is a normal return.
NoExc == "none"

\* Python objects a location mapping can hold under a key.
PyMissing == [t |-> "missing", n |-> 0]   \* the key is not in the dict
PyNone    == [t |-> "None",    n |-> 0]
PyStrText == [t |-> "str",     n |-> 0]   \* a str that is no number, e.g. 'None', 'abc'
PyList    == [t |-> "list",    n |-> 0]   \* a nested container
PyStrNum(n) == [t |-> "strnum", n |-> n]  \* a str holding a number, e.g. '51.55'
PyNum(n)    == [t |-> "num",    n |-> n]  \* an int / float

\* A cell of the latitude / longitude columns: a float or None (NaN).
Null     == [isnull |-> TRUE,  v |-> 0]
Float(n) == [isnull |-> FALSE, v |-> n]

\* Coordinates that occur in the bounded inputs (hundredths of a degree).
Coords == {5155, -20}

-----------------------------------------------------------------------------
(* Source text of a location: the string handed to ast.literal_eval.       *)
(* A text is [shape, lat, lon]; the shape tells what the whole string is,  *)
(* lat / lon are the source tokens written after the two keys of a dict    *)
(* display.                                                                *)

Tok(k, n) == [k |-> k, n |-> n]
TAbsent == Tok("absent", 0)    \* the key is not written
TNull   == Tok("null", 0)      \* the bare word null
TNone   == Tok("None", 0)      \* the bare word None
TName   == Tok("name", 0)      \* another bare identifier (nan, true, ...)
TQText  == Tok("qtext", 0)     \* a quoted non-numeric string ('abc', 'None')
TQNull  == Tok("qnull", 0)     \* the quoted string 'null'
TList   == Tok("list", 0)      \* a list display
TQNum(n) == Tok("qnum", n)     \* a quoted number '51.55'
TNum(n)  == Tok("num", n)      \* a numeric literal 51.55

FieldTokens ==
    {TAbsent, TNull, TNone, TName, TQText, TQNull, TList}
        \cup {TQNum(n) : n \in Coords} \cup {TNum(n) : n \in Coords}

Text(s, a, b) == [shape |-> s, lat |-> a, lon |-> b]

\* Whole-string shapes that are no dict display:
\*   "garbage"  not an expression ('not a mapping')
\*   "name"     a bare identifier ('nan')
\*   "null"     the bare word null
\*   "None"     the bare word None
\*   "scalar"   a literal that is no mapping (a number, a string, a list)
NonDictShapes == {"garbage", "name", "null", "None", "scalar"}

RawInputs ==
    {Text("dict", a, b) : a \in FieldTokens, b \in FieldTokens}
        \cup {Text(s, TAbsent, TAbsent) : s \in NonDictShapes}

-----------------------------------------------------------------------------
(* extract_lat_lon, src lines 255-262 (the definition in force when any    *)
(* caller runs; lines 57-64 are textually identical)                       *)

\* str.replace('null', 'None') on one token: every occurrence of the four
\* letters is rewritten, inside quotes as well.
ReplaceTok(tok) ==
    CASE tok.k = "null"  -> TNone
      [] tok.k = "qnull" -> TQText
      [] OTHER           -> tok

\* str(location_str).replace('null', 'None')
ReplaceNull(txt) ==
    [shape |-> IF txt.shape = "null" THEN "None" ELSE txt.shape,
     lat   |-> ReplaceTok(txt.lat),
     lon   |-> ReplaceTok(txt.lon)]

\* The object ast.literal_eval builds from one token of a dict display.
EvalTok(tok) ==
    CASE tok.k = "absent" -> PyMissing
      [] tok.k = "None"   -> PyNone
      [] tok.k = "qtext"  -> PyStrText
      [] tok.k = "qnull"  -> PyStrText
      [] tok.k = "list"   -> PyList
      [] tok.k = "qnum"   -> PyStrNum(tok.n)
      [] tok.k = "num"    -> PyNum(tok.n)
      [] OTHER            -> PyMissing

\* A bare identifier other than None / True / False is no literal.
IsBadName(tok) == tok.k \in {"null", "name"}

\* ast.literal_eval(text): SyntaxError for what does not parse, ValueError
\* ("malformed node or string") for a bare name, else the object.
LiteralEval(txt) ==
    CASE txt.shape = "garbage" ->
            [exc |-> "SyntaxError", isdict |-> FALSE, lat |-> PyMissing, lon |-> PyMissing]
      [] txt.shape \in {"name", "null"} ->
            [exc |-> "ValueError", isdict |-> FALSE, lat |-> PyMissing, lon |-> PyMissing]
      [] txt.shape \in {"None", "scalar"} ->
            [exc |-> NoExc, isdict |-> FALSE, lat |-> PyMissing, lon |-> PyMissing]
      [] OTHER ->
            IF IsBadName(txt.lat) \/ IsBadName(txt.lon)
            THEN [exc |-> "ValueError", isdict |-> FALSE, lat |-> PyMissing, lon |-> PyMissing]
            ELSE [exc |-> NoExc, isdict |-> TRUE,
                  lat |-> EvalTok(txt.lat), lon |-> EvalTok(txt.lon)]

\* location_dict.get(key, None)
DictGet(v) == IF v.t = "missing" THEN PyNone ELSE v

\* float(x): TypeError for None and containers, ValueError for a str that
\* is no number.
PyFloat(v) ==
    CASE v.t \in {"None", "list", "missing"} -> [exc |-> "TypeError",  v |-> 0]
      [] v.t = "str"                         -> [exc |-> "ValueError", v |-> 0]
      [] OTHER                               -> [exc |-> NoExc,        v |-> v.n]

\* The exceptions the except clause of extract_lat_lon names.
ParserCaught == {"ValueError", "SyntaxError"}

Ret(e, a, b) == [exc |-> e, lat |-> a, lon |-> b]

\* The try body of extract_lat_lon: the first statement that raises ends it.
ExtractBody(txt) ==
    LET d == LiteralEval(ReplaceNull(txt)) IN
    IF d.exc # NoExc THEN Ret(d.exc, Null, Null)
    ELSE IF ~d.isdict THEN Ret("AttributeError", Null, Null)
    ELSE LET la == PyFloat(DictGet(d.lat)) IN
         IF la.exc # NoExc THEN Ret(la.exc, Null, Null)
         ELSE LET lo == PyFloat(DictGet(d.lon)) IN
              IF lo.exc # NoExc THEN Ret(lo.exc, Null, Null)
              ELSE Ret(NoExc, Float(la.v), Float(lo.v))

\* extract_lat_lon(location_str): exc = "none" and the Series [lat, lon],
\* or the exception that escapes.
extract_lat_lon(txt) ==
    LET r == ExtractBody(txt) IN
    IF r.exc \in ParserCaught THEN Ret(NoExc, Null, Null) ELSE r

-----------------------------------------------------------------------------
(* The live fetch: requests.get, response.json() and fetch_crime_data,     *)
(* src lines 235-253                                                       *)

MaxIncidents == 2      \* incidents in one response body

HTTP_OK == 200             \* the status line 242 tests for
NonOkStatuses == {404, 503}  \* what the API answers otherwise

Categories == {"burglary", "drugs"}

\* incident['location'] after response.json(): a dict, None, or a str.
LocDict(a, b) == [t |-> "dict", lat |-> a, lon |-> b]
LocNone == [t |-> "None", lat |-> PyMissing, lon |-> PyMissing]
LocStr  == [t |-> "str",  lat |-> PyMissing, lon |-> PyMissing]

JsonLocations ==
    { LocDict(PyStrNum(5155), PyStrNum(-20)),    \* both coordinates
      LocDict(PyNone, PyStrNum(-20)),            \* "latitude": null
      LocDict(PyStrNum(5155), PyMissing),        \* no "longitude" key
      LocDict(PyStrText, PyStrNum(-20)),         \* "latitude": "abc"
      LocNone,                                   \* "location": null
      LocStr }                                   \* "location": "not a mapping"

Incidents == [category : Categories, location : JsonLocations]

RECURSIVE SeqsUpTo(_, _)
SeqsUpTo(S, n) ==
    IF n = 0 THEN {<<>>}
    ELSE LET shorter == SeqsUpTo(S, n - 1) IN
         shorter \cup {Append(q, x) : q \in {r \in shorter : Len(r) = n - 1}, x \in S}

\* What requests.get(url) can do: raise, or return a response.  body is the
\* parsed JSON list; parses = FALSE is a body response.json() cannot parse.
Responses ==
    { [kind |-> "exception", status |-> 0, parses |-> FALSE, body |-> <<>>],
      [kind |-> "http", status |-> HTTP_OK, parses |-> FALSE, body |-> <<>>] }
        \cup { [kind |-> "http", status |-> st, parses |-> FALSE, body |-> <<>>] :
                 st \in NonOkStatuses }
        \cup { [kind |-> "http", status |-> HTTP_OK, parses |-> TRUE, body |-> b] :
                 b \in SeqsUpTo(Incidents, MaxIncidents) }

NoResponse == [kind |-> "none", status |-> 0, parses |-> FALSE, body |-> <<>>]

\* repr() of one value of the location dict, as str(dict) writes it.
ReprTok(v) ==
    CASE v.t = "missing" -> TAbsent
      [] v.t = "None"    -> TNone
      [] v.t = "str"     -> TQText
      [] v.t = "list"    -> TList
      [] v.t = "strnum"  -> TQNum(v.n)
      [] OTHER           -> TNum(v.n)

\* str(location_str), the first thing extract_lat_lon does to its argument.
PyStr(loc) ==
    CASE loc.t = "dict" -> Text("dict", ReprTok(loc.lat), ReprTok(loc.lon))
      [] loc.t = "None" -> Text("None", TAbsent, TAbsent)
      [] OTHER          -> Text("garbage", TAbsent, TAbsent)

\* A DataFrame: cols says whether it has any column at all.
DataFrame(c, r) == [cols |-> c, rows |-> r]
EmptyDataFrame == DataFrame(FALSE, <<>>)          \* pd.DataFrame()

Row(inc, p) == [category |-> inc.category, location |-> inc.location,
                latitude |-> p.lat, longitude |-> p.lon]

\* df['location'].apply(extract_lat_lon): the calls run in row order and the
\* first one that raises ends the apply with that exception.
ApplyExtract(crimes) ==
    LET parsed  == [i \in 1..Len(crimes) |-> extract_lat_lon(PyStr(crimes[i].location))]
        raising == {i \in 1..Len(crimes) : parsed[i].exc # NoExc} IN
    IF raising # {}
    THEN [exc  |-> parsed[CHOOSE i \in raising : \A k \in raising : i <= k].exc,
          rows |-> <<>>]
    ELSE [exc  |-> NoExc,
          rows |-> [i \in 1..Len(crimes) |-> Row(crimes[i], parsed[i])]]

\* df.dropna(subset=['latitude', 'longitude'])
HasCoordinates(row) == ~row.latitude.isnull /\ ~row.longitude.isnull
DropNa(rows) == SelectSeq(rows, HasCoordinates)

\* A narrower except clause, as the one extract_lat_lon has.
FetchCaughtNarrow == {"ValueError", "SyntaxError"}

\* The exceptions `except Exception` catches: every one the body can raise.
FetchCaught ==
    {"ConnectionError", "JSONDecodeError", "TypeError", "AttributeError",
     "KeyError", "ValueError", "SyntaxError"}

Fetched(e, d, l) == [exc |-> e, df |-> d, log |-> l]

\* The try body of fetch_crime_data.  returned = TRUE when line 247 returns.
FetchBody(resp) ==
    IF resp.kind = "exception"
    THEN [exc |-> "ConnectionError", returned |-> FALSE, df |-> EmptyDataFrame, log |-> <<>>]
    ELSE IF resp.status = HTTP_OK
    THEN IF ~resp.parses
         THEN [exc |-> "JSONDecodeError", returned |-> FALSE, df |-> EmptyDataFrame, log |-> <<>>]
         ELSE IF resp.body # <<>>
         THEN LET a == ApplyExtract(resp.body) IN
              IF a.exc # NoExc
              THEN [exc |-> a.exc, returned |-> FALSE, df |-> EmptyDataFrame, log |-> <<>>]
              ELSE [exc |-> NoExc, returned |-> TRUE,
                    df |-> DataFrame(TRUE, DropNa(a.rows)), log |-> <<>>]
         ELSE [exc |-> NoExc, returned |-> FALSE, df |-> EmptyDataFrame, log |-> <<>>]
    ELSE [exc |-> NoExc, returned |-> FALSE, df |-> EmptyDataFrame,
          log |-> <<"Error fetching crime data", "Response">>]

\* Lines 251-253: the except clause and the final return, given how the try
\* body ended.
FetchReturn(b) ==
    IF b.exc # NoExc
    THEN IF b.exc \in FetchCaught
         THEN Fetched(NoExc, EmptyDataFrame, b.log \o <<"Exception occurred">>)
         ELSE Fetched(b.exc, EmptyDataFrame, b.log)
    ELSE IF b.returned THEN Fetched(NoExc, b.df, b.log)
    ELSE Fetched(NoExc, EmptyDataFrame, b.log)

\* fetch_crime_data(date), given what requests.get did.
fetch_crime_data(resp) == FetchReturn(FetchBody(resp))

-----------------------------------------------------------------------------
(* update_crime_map, src lines 270-355                                     *)

AllCrime == "All Crime"
NoDataMessage == "<h3>No crime data available for the selected date.</h3>"
MapHtml == "Barnet_Crime_Hotspots_Custom.html"

\* The values the date box and the Submit button are driven with.
DateInputs == {"", "2024-01", "2024-13"}
MaxClicks == 1

\* Series.unique().tolist(): first occurrences, in order.
Unique(q) ==
    LET firsts == {i \in 1..Len(q) : \A j \in 1..(i - 1) : q[j] # q[i]} IN
    [k \in 1..Cardinality(firsts) |->
        q[CHOOSE i \in firsts : Cardinality({j \in firsts : j < i}) = k - 1]]

CategoryColumn(rows) == [i \in 1..Len(rows) |-> rows[i].category]

\* crime_data[crime_data['category'] == selected_category]
FilterCategory(rows, cat) ==
    LET Selected(row) == row.category = cat IN SelectSeq(rows, Selected)

Out(e, h, o, pts) == [exc |-> e, html |-> h, options |-> o, heat |-> pts]
NoOut == Out(NoExc, "", <<>>, <<>>)

\* Lines 274-354: what the callback does with the frame the fetch returned.
RenderCrimeMap(frame, cat) ==
    IF ~frame.cols
    THEN Out("KeyError", "", <<>>, <<>>)            \* crime_data['category']
    ELSE LET options  == <<AllCrime>> \o Unique(CategoryColumn(frame.rows))
             filtered == IF cat = AllCrime THEN frame.rows
                         ELSE FilterCategory(frame.rows, cat) IN
         IF filtered # <<>>
         THEN Out(NoExc, MapHtml, options,
                  [i \in 1..Len(filtered) |->
                      <<filtered[i].latitude.v, filtered[i].longitude.v>>])
         ELSE Out(NoExc, NoDataMessage, options, <<>>)

CrimeInit ==
    /\ pc = "idle"
    /\ n_clicks = 0
    /\ date_input = ""
    /\ selected_category = AllCrime
    /\ response = NoResponse
    /\ crime_data = EmptyDataFrame
    /\ fetch_exc = NoExc
    /\ log = <<>>
    /\ cb_out = NoOut

\* Dash calls update_crime_map; line 271 decides whether anything is fetched.
SubmitDate ==
    /\ pc = "idle"
    /\ \E n \in 0..MaxClicks, d \in DateInputs, c \in {AllCrime} \cup Categories :
          /\ n_clicks' = n
          /\ date_input' = d
          /\ selected_category' = c
          /\ IF n > 0 /\ d # ""
             THEN /\ pc' = "requesting"
                  /\ cb_out' = cb_out
             ELSE /\ pc' = "done"
                  /\ cb_out' = Out(NoExc, "", <<AllCrime>>, <<>>)
    /\ UNCHANGED <<response, crime_data, fetch_exc, log>>
    /\ UNCHANGED not_crime_vars

\* requests.get(url), line 239: the network and the API decide.
HttpGet ==
    /\ pc = "requesting"
    /\ \E r \in Responses : response' = r
    /\ pc' = "fetching"
    /\ UNCHANGED <<n_clicks, date_input, selected_category, crime_data, fetch_exc, log, cb_out>>
    /\ UNCHANGED not_crime_vars

\* The rest of fetch_crime_data, lines 240-253.
FetchCrimeData ==
    /\ pc = "fetching"
    /\ \E f \in {fetch_crime_data(response)} :
          /\ crime_data' = f.df
          /\ log' = log \o f.log
          /\ fetch_exc' = f.exc
          /\ IF f.exc = NoExc
             THEN /\ pc' = "rendering"
                  /\ cb_out' = cb_out
             ELSE /\ pc' = "done"
                  /\ cb_out' = Out(f.exc, "", <<>>, <<>>)
    /\ UNCHANGED <<n_clicks, date_input, selected_category, response>>
    /\ UNCHANGED not_crime_vars

\* The rest of update_crime_map, lines 274-354.
UpdateCrimeMap ==
    /\ pc = "rendering"
    /\ cb_out' = RenderCrimeMap(crime_data, selected_category)
    /\ pc' = "done"
    /\ UNCHANGED <<n_clicks, date_input, selected_category, response, crime_data,
                   fetch_exc, log>>
    /\ UNCHANGED not_crime_vars

-----------------------------------------------------------------------------
(* Start-up: the two boundary collections and their spatial join,          *)
(* src lines 24-47.  A polygon is a closed interval [lo, hi] of one axis   *)
(* with lo < hi: two polygons can be apart, overlap, or touch in one       *)
(* boundary point.                                                         *)

MaxLsoas == 2          \* features in the LSOA collection
MaxWards == 2          \* features in the ward collection

Axis == 0..3
Polygons == {g \in [lo : Axis, hi : Axis] : g.lo < g.hi}
CrimeCounts == {4, 9}

LsoaCodes == <<"E01000001", "E01000002", "E01000003", "E01000004">>
LsoaNames == <<"Barnet 001A", "Barnet 001B", "Barnet 002A", "Barnet 002B">>
WardNames == <<"Totteridge", "Underhill", "Whetstone", "Woodhouse">>
WardCodes == <<"E05013646", "E05013647", "E05013648", "E05013649">>

\* Feature i of the LSOA collection, with its attributes.
LsoaFeature(i, g, c) ==
    [LSOA21CD |-> LsoaCodes[i], LSOA21NM |-> LsoaNames[i], total_crime |-> c, geometry |-> g]

\* Feature j of the ward collection.
WardFeature(j, g) ==
    [WardName |-> WardNames[j], ONSWardCode |-> WardCodes[j], geometry |-> g]

\* The well-formed collections the two URLs can deliver.
LsoaCollections ==
    UNION { { [i \in 1..n |-> LsoaFeature(i, g[i], c[i])] :
                g \in [1..n -> Polygons], c \in [1..n -> CrimeCounts] } : n \in 1..MaxLsoas }

WardCollections ==
    UNION { { [j \in 1..n |-> WardFeature(j, g[j])] : g \in [1..n -> Polygons] } :
            n \in 1..MaxWards }

\* Nullable cells of the ward columns.
NaN == [isnull |-> TRUE, v |-> 0]
NullStr == [isnull |-> TRUE, v |-> ""]
Cell(x) == [isnull |-> FALSE, v |-> x]

\* A narrower predicate: the interiors overlap.
Overlaps(a, b) == a.lo < b.hi /\ b.lo < a.hi

\* predicate="intersects": the two closed polygons share at least a point.
Intersects(a, b) == a.lo <= b.hi /\ b.lo <= a.hi

\* An inner join keeps matched rows only.
JoinHowInner == "inner"

\* how="left", line 42.
JoinHow == "left"

\* The row sjoin emits for left row i matched with right row j.
MatchedRow(left, right, i, j) ==
    [index |-> i,
     LSOA21CD |-> left[i].LSOA21CD, LSOA21NM |-> left[i].LSOA21NM,
     total_crime |-> left[i].total_crime, geometry |-> left[i].geometry,
     index_right |-> Cell(j - 1),
     WardName |-> Cell(right[j].WardName), ONSWardCode |-> Cell(right[j].ONSWardCode)]

\* An unmatched row filled with a sentinel instead of nulls.
UnmatchedRowZero(left, i) ==
    [index |-> i,
     LSOA21CD |-> left[i].LSOA21CD, LSOA21NM |-> left[i].LSOA21NM,
     total_crime |-> left[i].total_crime, geometry |-> left[i].geometry,
     index_right |-> Cell(0), WardName |-> Cell(""), ONSWardCode |-> Cell("")]

\* The row a left join emits for a left row without a match.
UnmatchedRow(left, i) ==
    [index |-> i,
     LSOA21CD |-> left[i].LSOA21CD, LSOA21NM |-> left[i].LSOA21NM,
     total_crime |-> left[i].total_crime, geometry |-> left[i].geometry,
     index_right |-> NaN, WardName |-> NullStr, ONSWardCode |-> NullStr]

\* The right rows left row i matches, as sjoin's spatial index reports them.
Matches(left, right, i) ==
    {j \in 1..Len(right) : Intersects(left[i].geometry, right[j].geometry)}

\* The k-th smallest element of a finite set of integers.
Nth(S, k) == CHOOSE x \in S : Cardinality({y \in S : y < x}) = k - 1

\* The rows of the result that come from left row i, in right-index order.
RowsOfMatches(left, right, i, m) ==
    IF m = {}
    THEN IF JoinHow = "left" THEN <<UnmatchedRow(left, i)>> ELSE <<>>
    ELSE [k \in 1..Cardinality(m) |-> MatchedRow(left, right, i, Nth(m, k))]

RowsOf(left, right, i) == RowsOfMatches(left, right, i, Matches(left, right, i))

\* gpd.sjoin(left, right, how=JoinHow, predicate="intersects"): the rows of
\* the left frame in index order, each once per matching right row.
RECURSIVE SJoinUpTo(_, _, _)
SJoinUpTo(left, right, n) ==
    IF n = 0 THEN <<>>
    ELSE SJoinUpTo(left, right, n - 1) \o RowsOf(left, right, n)

sjoin(left, right) == SJoinUpTo(left, right, Len(left))

\* lsoa_wards_gdf.drop(columns='geometry'), line 45.
DropGeometryRow(r) ==
    [index |-> r.index, LSOA21CD |-> r.LSOA21CD, LSOA21NM |-> r.LSOA21NM,
     total_crime |-> r.total_crime, index_right |-> r.index_right,
     WardName |-> r.WardName, ONSWardCode |-> r.ONSWardCode]

DropGeometry(rows) == [k \in 1..Len(rows) |-> DropGeometryRow(rows[k])]

JoinIdle ==
    /\ load_pc = "idle"
    /\ lsoa_gdf = <<>>
    /\ wards_gdf = <<>>
    /\ df = <<>>

JoinInit ==
    /\ load_pc = "start"
    /\ lsoa_gdf = <<>>
    /\ wards_gdf = <<>>
    /\ df = <<>>

\* Lines 24-39: both documents are fetched and turned into GeoDataFrames.
LoadGeoJson ==
    /\ load_pc = "start"
    /\ \E l \in LsoaCollections, w \in WardCollections :
          /\ lsoa_gdf' = l
          /\ wards_gdf' = w
    /\ load_pc' = "loaded"
    /\ UNCHANGED df
    /\ UNCHANGED not_join_vars

\* Lines 42-45: the spatial join, flattened into df.
SpatialJoin ==
    /\ load_pc = "loaded"
    /\ df' = DropGeometry(sjoin(lsoa_gdf, wards_gdf))
    /\ load_pc' = "joined"
    /\ UNCHANGED <<lsoa_gdf, wards_gdf>>
    /\ UNCHANGED not_join_vars

-----------------------------------------------------------------------------
(* update_variable_map: decile thresholds and get_color, src lines 415-440 *)
(* Thresholds are exact: a percentile of integers at a decile is a         *)
(* multiple of 1/10, held as an integer number of tenths.                  *)

MaxValues == 3         \* LSOA features in the collection
MaxValue == 3          \* largest attribute value

Scale == 10            \* tenths
Tiers == 10            \* len(percentiles), line 420

\* percentiles, line 420
percentiles == [i \in 1..Tiers |-> 10 * i]

\* colors, line 421
colors ==
    <<"#800026", "#BD0026", "#E31A1C", "#FC4E2A", "#FD8D3C",
      "#FEB24C", "#FED976", "#FFEDA0", "#FFFFCC", "#FFFFFF">>

\* The list 1, 2, ..., 100.
OneToHundred == [i \in 1..100 |-> i]

\* The attribute columns the map is drawn for.
ValueLists ==
    UNION { [1..n -> 0..MaxValue] : n \in 1..MaxValues } \cup {OneToHundred}

\* The k-th smallest entry of a list, duplicates counted.
KthSmallest(q, k) ==
    CHOOSE v \in {q[i] : i \in 1..Len(q)} :
        /\ Cardinality({i \in 1..Len(q) : q[i] < v}) < k
        /\ Cardinality({i \in 1..Len(q) : q[i] <= v}) >= k

\* The sorted copy np.percentile works on.
Sorted(q) == [k \in 1..Len(q) |-> KthSmallest(q, k)]

\* The 'lower' convention: the order statistic at the floor of the rank.
LowerBetween(srt, rank10) == Scale * srt[(rank10 \div Scale) + 1]

\* Linear interpolation between the two order statistics that bracket the
\* rank; rank10 is the rank p/100 * (n - 1) in tenths, counted from 0.
LerpBetween(srt, rank10) ==
    IF rank10 % Scale = 0
    THEN Scale * srt[(rank10 \div Scale) + 1]
    ELSE Scale * srt[(rank10 \div Scale) + 1]
            + (rank10 % Scale) * (srt[(rank10 \div Scale) + 2] - srt[(rank10 \div Scale) + 1])

\* np.percentile(values, p), default method 'linear', in tenths.
Percentile(vals, p) == LerpBetween(Sorted(vals), (p \div 10) * (Len(vals) - 1))

\* thresholds, line 422
Thresholds(vals) == [i \in 1..Tiers |-> Percentile(vals, percentiles[i])]

\* A scan without the early return: the last tier that satisfies the test.
RECURSIVE ScanLast(_, _, _)
ScanLast(v10, thr, i) ==
    IF i < 1 THEN 0
    ELSE IF v10 <= thr[i] THEN i
    ELSE ScanLast(v10, thr, i - 1)

\* A scan with a strict comparison.
RECURSIVE ScanStrict(_, _, _)
ScanStrict(v10, thr, i) ==
    IF i > Len(thr) THEN 0
    ELSE IF v10 < thr[i] THEN i
    ELSE ScanStrict(v10, thr, i + 1)

\* The for loop of get_color from tier i on: the index of the tier it
\* returns at, 0 when the loop ends without returning.
RECURSIVE ScanFirst(_, _, _)
ScanFirst(v10, thr, i) ==
    IF i > Len(thr) THEN 0
    ELSE IF v10 <= thr[i] THEN i
    ELSE ScanFirst(v10, thr, i + 1)

\* The loops of the two variants, from their first tier.
ScanFromEnd(v10, thr) == ScanLast(v10, thr, Len(thr))
ScanNoEqual(v10, thr) == ScanStrict(v10, thr, 1)

\* The loop of lines 425-427.
Scan(v10, thr) == ScanFirst(v10, thr, 1)

ColorAt(i) == IF i = 0 THEN colors[Len(colors)] ELSE colors[i]

\* get_color(value), lines 424-428, for the thresholds of the closure.
get_color(value, thr) == ColorAt(Scan(Scale * value, thr))

ColorIdle ==
    /\ map_pc = "idle"
    /\ selected_variable = ""
    /\ values = <<>>
    /\ thresholds = <<>>
    /\ fill_colors = <<>>
    /\ probe = 0
    /\ probe_color = ""

\* update_variable_map(selected_variable): with a variable selected, the
\* thresholds of its values and the fill colour of every feature.
UpdateVariableMap ==
    /\ map_pc = "idle"
    /\ \E sel \in {"", "total_crime"} :
          /\ selected_variable' = sel
          /\ IF sel # ""
             THEN \E vals \in ValueLists :
                     /\ values' = vals
                     /\ \E thr \in {Thresholds(vals)} :
                           /\ thresholds' = thr
                           /\ fill_colors' = [i \in 1..Len(vals) |-> get_color(vals[i], thr)]
             ELSE /\ values' = <<>>
                  /\ thresholds' = <<>>
                  /\ fill_colors' = <<>>
    /\ map_pc' = "rendered"
    /\ UNCHANGED <<probe, probe_color>>
    /\ UNCHANGED not_color_vars

\* get_color applied to one value, whether or not a feature holds it.
GetColor ==
    /\ map_pc = "rendered"
    /\ selected_variable # ""
    /\ probe_color = ""
    /\ \E v \in 0..(MaxValue + 1) :
          /\ probe' = v
          /\ probe_color' = get_color(v, thresholds)
    /\ UNCHANGED <<map_pc, selected_variable, values, thresholds, fill_colors>>
    /\ UNCHANGED not_color_vars

-----------------------------------------------------------------------------
(* The module from import to serving: the four try blocks of lines 24-71   *)
(* and the layout of lines 149-233.  globals is the module namespace, a    *)
(* function from the names bound so far to their values; reading a name    *)
(* that is not bound raises NameError.                                     *)

\* The LSOA documents the first URL can deliver when it delivers one: area i
\* lies on [i-1, i] and carries either crime count.
LsoaLayouts ==
    UNION { { [i \in 1..n |-> LsoaFeature(i, [lo |-> i - 1, hi |-> i], c[i])] :
                c \in [1..n -> CrimeCounts] } : n \in 1..MaxLsoas }

\* The ward documents: one ward away from the first area, two wards that
\* meet on the first area's edge, one ward over everything.
WardLayouts ==
    { <<WardFeature(1, [lo |-> 2, hi |-> 3])>>,
      <<WardFeature(1, [lo |-> 0, hi |-> 1]), WardFeature(2, [lo |-> 1, hi |-> 3])>>,
      <<WardFeature(1, [lo |-> 0, hi |-> 3])>> }

\* The rows of barnet_crimes.csv: a category and the text of the location
\* cell.  An empty cell reads as nan.
CsvRow(c, txt) == [category |-> c, location |-> txt]
CsvTables ==
    { <<CsvRow("burglary", Text("dict", TQNum(5155), TQNum(-20)))>>,
      <<CsvRow("burglary", Text("dict", TQNum(5155), TQNum(-20))),
        CsvRow("drugs", Text("name", TAbsent, TAbsent))>>,
      <<CsvRow("drugs", Text("dict", TNone, TQNum(-20)))>> }

\* What a URL delivers.  status:
\*   "ok"           the document, well formed
\*   "unreachable"  the request raises (no connection, time-out)
\*   "not_json"     a body .json() cannot parse (an error page)
\*   "no_features"  JSON without the "features" member
\*   "no_location"  a CSV without the location column
Document(st, b) == [status |-> st, body |-> b]
NoDocument == Document("none", <<>>)

LsoaDocuments ==
    {Document("ok", l) : l \in LsoaLayouts}
        \cup {Document(st, <<>>) : st \in {"unreachable", "not_json", "no_features"}}
WardDocuments ==
    {Document("ok", w) : w \in WardLayouts}
        \cup {Document(st, <<>>) : st \in {"unreachable", "not_json", "no_features"}}
CsvDocuments ==
    {Document("ok", t) : t \in CsvTables}
        \cup {Document(st, <<>>) : st \in {"unreachable", "no_location"}}

\* requests.get(url).json(): the exception it raises, if any.
GetJsonExc(doc) ==
    CASE doc.status = "unreachable" -> "ConnectionError"
      [] doc.status = "not_json"    -> "JSONDecodeError"
      [] OTHER                      -> NoExc

\* The parsed JSON value.
GeoJson(doc) == [has_features |-> doc.status = "ok", features |-> doc.body]

\* The module namespace.
NoGlobals == <<>>
Bind(g, name, value) == (name :> value) @@ g
Bound(g, name) == name \in DOMAIN g

\* One module-level statement sequence: the namespace and the log it leaves,
\* and the exception that ended it.
Ran(e, g, l) == [exc |-> e, globals |-> g, log |-> l]

\* Lines 25-28, the try body.
LoadGeoJsonBody(g, l, w) ==
    IF GetJsonExc(l) # NoExc THEN Ran(GetJsonExc(l), g, <<>>)
    ELSE IF GetJsonExc(w) # NoExc
    THEN Ran(GetJsonExc(w), Bind(g, "lsoa_geojson_data", GeoJson(l)), <<>>)
    ELSE Ran(NoExc,
             Bind(Bind(g, "lsoa_geojson_data", GeoJson(l)), "wards_geojson_data", GeoJson(w)),
             <<>>)

\* except Exception as e: logger.error(...), for each of the four blocks.
Catch(r, message) ==
    IF r.exc # NoExc THEN Ran(NoExc, r.globals, r.log \o <<message>>) ELSE r

\* obj["features"], lines 34 and 35.
Features(g, name) ==
    IF ~Bound(g, name) THEN [exc |-> "NameError", v |-> <<>>]
    ELSE IF ~g[name].has_features THEN [exc |-> "KeyError", v |-> <<>>]
    ELSE [exc |-> NoExc, v |-> g[name].features]

\* Lines 38-45 once both GeoDataFrames exist.
JoinFrames(g, left, right) ==
    Bind(Bind(g, "lsoa_wards_gdf", sjoin(left, right)),
         "df", DropGeometry(sjoin(left, right)))

\* Lines 34-45, the try body.
ProcessGeoBody(g) ==
    IF Features(g, "lsoa_geojson_data").exc # NoExc
    THEN Ran(Features(g, "lsoa_geojson_data").exc, g, <<>>)
    ELSE IF Features(g, "wards_geojson_data").exc # NoExc
    THEN Ran(Features(g, "wards_geojson_data").exc,
             Bind(g, "lsoa_gdf", Features(g, "lsoa_geojson_data").v), <<>>)
    ELSE Ran(NoExc,
             JoinFrames(Bind(Bind(g, "lsoa_gdf", Features(g, "lsoa_geojson_data").v),
                             "wards_gdf", Features(g, "wards_geojson_data").v),
                        Features(g, "lsoa_geojson_data").v,
                        Features(g, "wards_geojson_data").v),
             <<>>)

\* Lines 51-52, the try body: pd.read_csv(crime_data_url).
LoadCrimeBody(g, c) ==
    IF c.status = "unreachable" THEN Ran("URLError", g, <<>>)
    ELSE Ran(NoExc,
             Bind(g, "crime_data", [has_location |-> c.status = "ok", rows |-> c.body]),
             <<>>)

\* crime_data['location'].apply(extract_lat_lon), line 67, on the cells of
\* the CSV: they are str already.
ParsedCells(rows) == [i \in 1..Len(rows) |-> extract_lat_lon(rows[i].location)]
RaisingCells(rows) == {i \in 1..Len(rows) : ParsedCells(rows)[i].exc # NoExc}
FirstOf(S) == CHOOSE i \in S : \A k \in S : i <= k
WithCoordinates(rows) == [i \in 1..Len(rows) |-> Row(rows[i], ParsedCells(rows)[i])]

\* Lines 67-69 once the apply has returned.
CrimeCategories(g, rows) ==
    Bind(Bind(Bind(g, "crime_data", [has_location |-> TRUE, rows |-> rows]),
              "filtered_crime_data", DropNa(rows)),
         "crime_categories", <<AllCrime>> \o Unique(CategoryColumn(DropNa(rows))))

\* Lines 67-69, the try body.
ProcessCrimeBody(g) ==
    IF ~Bound(g, "crime_data") THEN Ran("NameError", g, <<>>)
    ELSE IF ~g["crime_data"].has_location THEN Ran("KeyError", g, <<>>)
    ELSE IF RaisingCells(g["crime_data"].rows) # {}
    THEN Ran(ParsedCells(g["crime_data"].rows)[FirstOf(RaisingCells(g["crime_data"].rows))].exc,
             g, <<>>)
    ELSE Ran(NoExc, CrimeCategories(g, WithCoordinates(g["crime_data"].rows)), <<>>)

\* variables_to_exclude, lines 140-144
variables_to_exclude ==
    {"FeatureID", "LSOA21CD", "LSOA21NM", "Lower layer Super Output Areas Code",
     "Lower layer Super Output Areas_deprivation", "Does not apply_deprivation",
     "index_right", "ONSWardCode", "WardName"}

\* df.columns: the fields of a row other than the frame's index.
Columns(frame) == IF frame = <<>> THEN {} ELSE (DOMAIN frame[1]) \ {"index"}

WardColumn(frame) == [k \in 1..Len(frame) |-> frame[k].WardName]

Tabs == {"LSOA Variable Heatmap", "Bar Charts", "Barnet Crime Heatmap", "Correlations"}
NoLayout == [built |-> FALSE, variables |-> {}, categories |-> <<>>, wards |-> <<>>]

\* Lines 149-233: the expression is evaluated top to bottom, df first
\* (line 160), crime_categories at line 199.
BuildLayoutBody(g) ==
    IF ~Bound(g, "df") THEN [exc |-> "NameError", layout |-> NoLayout]
    ELSE IF ~Bound(g, "crime_categories") THEN [exc |-> "NameError", layout |-> NoLayout]
    ELSE [exc |-> NoExc,
          layout |-> [built |-> TRUE,
                      variables |-> Columns(g["df"]) \ variables_to_exclude,
                      categories |-> g["crime_categories"],
                      wards |-> Unique(WardColumn(g["df"]))]]

NoCall == [fn |-> "none", n_clicks |-> 0, text |-> "", variable |-> "", ward |-> ""]
Returned(e, k, o) == [exc |-> e, kind |-> k, out |-> o]
NoRet == Returned(NoExc, "none", <<>>)

AppIdle ==
    /\ app_pc = "idle"
    /\ documents = [lsoa |-> NoDocument, wards |-> NoDocument, crime |-> NoDocument]
    /\ globals = NoGlobals
    /\ app_log = <<>>
    /\ layout = NoLayout
    /\ call = NoCall
    /\ ret = NoRet

AppInit ==
    /\ app_pc = "load_geojson"
    /\ documents = [lsoa |-> NoDocument, wards |-> NoDocument, crime |-> NoDocument]
    /\ globals = NoGlobals
    /\ app_log = <<>>
    /\ layout = NoLayout
    /\ call = NoCall
    /\ ret = NoRet

\* Lines 24-30.  The ward document is requested only when the LSOA document
\* has been parsed.
LoadGeoJsonFiles ==
    /\ app_pc = "load_geojson"
    /\ \E l \in LsoaDocuments, w \in WardDocuments :
          /\ documents' = [documents EXCEPT !.lsoa = l,
                              !.wards = IF GetJsonExc(l) = NoExc THEN w ELSE NoDocument]
          /\ \E r \in {Catch(LoadGeoJsonBody(globals, l, w), "Error loading GeoJSON files")} :
                /\ globals' = r.globals
                /\ app_log' = app_log \o r.log
    /\ app_pc' = "process_geo"
    /\ UNCHANGED <<layout, call, ret>>
    /\ UNCHANGED not_app_vars

\* Lines 33-47.
ProcessGeoDataFrames ==
    /\ app_pc = "process_geo"
    /\ \E r \in {Catch(ProcessGeoBody(globals), "Error processing GeoDataFrames")} :
          /\ globals' = r.globals
          /\ app_log' = app_log \o r.log
    /\ app_pc' = "load_crime"
    /\ UNCHANGED <<documents, layout, call, ret>>
    /\ UNCHANGED not_app_vars

\* Lines 50-54.
LoadCrimeData ==
    /\ app_pc = "load_crime"
    /\ \E c \in CsvDocuments :
          /\ documents' = [documents EXCEPT !.crime = c]
          /\ \E r \in {Catch(LoadCrimeBody(globals, c), "Error loading crime data")} :
                /\ globals' = r.globals
                /\ app_log' = app_log \o r.log
    /\ app_pc' = "process_crime"
    /\ UNCHANGED <<layout, call, ret>>
    /\ UNCHANGED not_app_vars

\* Lines 66-71.
ProcessCrimeData ==
    /\ app_pc = "process_crime"
    /\ \E r \in {Catch(ProcessCrimeBody(globals), "Error processing crime data")} :
          /\ globals' = r.globals
          /\ app_log' = app_log \o r.log
    /\ app_pc' = "layout"
    /\ UNCHANGED <<documents, layout, call, ret>>
    /\ UNCHANGED not_app_vars

\* Lines 149-233, at module level and outside every try: an exception here
\* ends the import, and with it the process.
BuildLayout ==
    /\ app_pc = "layout"
    /\ \E b \in {BuildLayoutBody(globals)} :
          /\ layout' = b.layout
          /\ app_pc' = IF b.exc = NoExc THEN "serving" ELSE "crashed"
          /\ ret' = Returned(b.exc, "none", <<>>)
    /\ UNCHANGED <<documents, globals, app_log, call>>
    /\ UNCHANGED not_app_vars

-----------------------------------------------------------------------------
(* The callbacks on the joined table, src lines 362-580.  A callback is a  *)
(* function of the module namespace and its arguments; it returns the      *)
(* namespace it leaves behind and what it returned or raised.              *)

Called(g, r) == [globals |-> g, ret |-> r]

\* A callback that ends without an error whatever went wrong in it.
Swallowed(e) == Returned(NoExc, "none", <<>>)

\* raise, or an exception no except clause of the callback catches: Dash
\* answers the request with an error.
Raised(e) == Returned(e, "none", <<>>)

\* The values the variable dropdowns are driven with: a column of df, a name
\* no document has, and the empty selection.
AbsentVariable == "no_such_variable"
VariableInputs == {"total_crime", AbsentVariable}

\* frame[key], feature['properties'][key]: KeyError for a key that is not
\* there.
GetItem(columns, key) == IF key \in columns THEN NoExc ELSE "KeyError"

\* The column of a frame as a list.
Column(frame, key) == [k \in 1..Len(frame) |-> frame[k][key]]

\* sort_values(by=key, ascending=False): position of row i in the result.
\* Ties keep the order of the frame.
PlaceDescending(frame, key, i) ==
    1 + Cardinality({j \in 1..Len(frame) :
                        \/ frame[j][key] > frame[i][key]
                        \/ frame[j][key] = frame[i][key] /\ j < i})

SortValues(frame, key) ==
    [k \in 1..Len(frame) |->
        frame[CHOOSE i \in 1..Len(frame) : PlaceDescending(frame, key, i) = k]]

\* One bar mark per row of the frame handed to px.bar; marks with the same
\* x are stacked.
Bars(frame, key) == [k \in 1..Len(frame) |-> [x |-> frame[k].LSOA21NM, y |-> frame[k][key]]]

RECURSIVE SumColumn(_, _, _)
SumColumn(frame, key, n) ==
    IF n = 0 THEN 0 ELSE SumColumn(frame, key, n - 1) + frame[n][key]

RowsOfWard(frame, ward) ==
    LET InWard(row) == row.WardName = Cell(ward) IN SelectSeq(frame, InWard)

\* The wards that occur in the frame; groupby drops the null key.
WardsIn(frame) == {frame[k].WardName.v : k \in {i \in 1..Len(frame) : ~frame[i].WardName.isnull}}

\* df.groupby('WardName')[key].sum().reset_index(), line 393
WardTotals(frame, key) ==
    { [x |-> w, y |-> SumColumn(RowsOfWard(frame, w), key, Len(RowsOfWard(frame, w)))] :
        w \in WardsIn(frame) }

\* update_bar_charts(selected_variable), lines 362-409
update_bar_charts(g, variable) ==
    IF variable \notin Columns(g["df"])
    THEN Called(g, Raised("ValueError"))
    ELSE Called(g, Returned(NoExc, "figures",
                   [lsoa_fig |-> Bars(SortValues(g["df"], variable), variable),
                    ward_fig |-> WardTotals(g["df"], variable)]))

\* The property names of a feature.
Properties(feature) == (DOMAIN feature) \ {"geometry"}

\* Line 419: the first feature without the property ends the comprehension.
ValuesExc(features, variable) ==
    IF \E k \in 1..Len(features) : GetItem(Properties(features[k]), variable) # NoExc
    THEN "KeyError" ELSE NoExc

VariableMapFile == "lsoa_variable_map.html"

\* What m.save writes: the layers of the map.
VariableMap(variable, fills, wards) ==
    [file |-> VariableMapFile, variable |-> variable, fillColor |-> fills, wards |-> wards]

FillColors(vals) == [k \in 1..Len(vals) |-> get_color(vals[k], Thresholds(vals))]

WardLayer(features) == [k \in 1..Len(features) |-> features[k].WardName]

\* update_variable_map(selected_variable), lines 415-485
update_variable_map(g, variable) ==
    IF variable = ""
    THEN Called(g, Returned(NoExc, "map",
                   VariableMap("", <<>>, WardLayer(g["wards_geojson_data"].features))))
    ELSE IF ValuesExc(g["lsoa_geojson_data"].features, variable) # NoExc
    THEN Called(g, Raised(ValuesExc(g["lsoa_geojson_data"].features, variable)))
    ELSE Called(g, Returned(NoExc, "map",
                   VariableMap(variable,
                               FillColors(Column(g["lsoa_geojson_data"].features, variable)),
                               WardLayer(g["wards_geojson_data"].features))))

\* Strings the name box works on, as lists of characters.
Barnet == <<"B", "a", "r", "n", "e", "t", " ">>
LsoaNameChars ==
    << Barnet \o <<"0", "0", "1", "A">>, Barnet \o <<"0", "0", "1", "B">>,
       Barnet \o <<"0", "0", "2", "A">>, Barnet \o <<"0", "0", "2", "B">> >>
CharsOf(name) == LsoaNameChars[CHOOSE i \in 1..Len(LsoaNames) : LsoaNames[i] = name]

\* What is typed into the name box.
LsoaInputs ==
    { <<>>,
      <<" ">>,
      Barnet \o <<"0", "0", "1", "A">>,
      <<" ", "b", "a", "r", "n", "e", "t", " ", "0", "0", "1", "b", " ">>,
      Barnet \o <<"0", "0", "1">>,
      <<"0", "0", "2">>,
      <<"H", "e", "n", "d", "o", "n">> }

\* str.upper() on one character.
UpperChar(c) ==
    CASE c = "a" -> "A" [] c = "b" -> "B" [] c = "d" -> "D" [] c = "e" -> "E"
      [] c = "n" -> "N" [] c = "o" -> "O" [] c = "r" -> "R" [] c = "t" -> "T"
      [] OTHER -> c
Upper(q) == [k \in 1..Len(q) |-> UpperChar(q[k])]

\* str.strip()
Strip(q) ==
    IF \A k \in 1..Len(q) : q[k] = " " THEN <<>>
    ELSE SubSeq(q, FirstOf({k \in 1..Len(q) : q[k] # " "}),
                   FirstOf({k \in 1..Len(q) : \A j \in (k + 1)..Len(q) : q[j] = " "}))

\* needle occurs in hay; the pattern has no regex metacharacter.
Contains(hay, needle) ==
    \E o \in 0..(Len(hay) - Len(needle)) : \A k \in 1..Len(needle) : hay[o + k] = needle[k]

\* frame[frame['LSOA21NM'].str.contains(name, case=False, na=False)]
Matching(frame, name) ==
    LET Hit(row) == Contains(Upper(CharsOf(row.LSOA21NM)), Upper(name)) IN
    SelectSeq(frame, Hit)

\* drop_duplicates(subset=['LSOA21NM']): the first row of every name.
KeptRows(frame) ==
    {i \in 1..Len(frame) : \A j \in 1..(i - 1) : frame[j].LSOA21NM # frame[i].LSOA21NM}
DropDuplicates(frame) ==
    [k \in 1..Cardinality(KeptRows(frame)) |-> frame[Nth(KeptRows(frame), k)]]

\* reset_index(drop=True)
ResetIndex(frame) == [k \in 1..Len(frame) |-> [frame[k] EXCEPT !.index = k]]

\* Series.rank(method='min', ascending=False)
Ranks(vals) ==
    [i \in 1..Len(vals) |-> 1 + Cardinality({j \in 1..Len(vals) : vals[j] > vals[i]})]

\* The frame with one more column.
WithColumn(frame, col, vals) ==
    [k \in 1..Len(frame) |->
        [c \in (DOMAIN frame[k]) \cup {col} |->
            IF c = col THEN (IF k <= Len(vals) THEN vals[k] ELSE 0) ELSE frame[k][c]]]

\* The names a running callback sees: its own and the module's.
Env(g, l) == [globals |-> g, locals |-> l]

\* name[col] = vals: the frame the name refers to gets the column; a name
\* the function has not bound itself is the module's.
SetItem(env, name, col, vals) ==
    IF Bound(env.locals, name)
    THEN Env(env.globals, Bind(env.locals, name, WithColumn(env.locals[name], col, vals)))
    ELSE Env(Bind(env.globals, name, WithColumn(env.globals[name], col, vals)), env.locals)

\* The rank column written to the module's table.
RankFrameShared == "df"

\* The frame line 508 writes the rank column to.
RankFrame == "df_sorted"

\* Lines 498-507: lsoa_data, df_unique and df_sorted are new frames.
InfoFrames(g, name, variable) ==
    Env(g, Bind(Bind(Bind(NoGlobals, "lsoa_data", Matching(g["df"], name)),
                     "df_unique", DropDuplicates(g["df"])),
                "df_sorted", ResetIndex(SortValues(DropDuplicates(g["df"]), variable))))

\* Line 508.
InfoRank(env, variable) ==
    SetItem(env, RankFrame, "rank", Ranks(Column(env.locals["df_sorted"], variable)))

LsoaInfo(v, r, t, w) == [value |-> v, rank |-> r, total |-> t, ward |-> w]

\* Lines 501 and 509-519.
InfoReturn(env, name, variable) ==
    IF GetItem(Columns(env.locals["df_sorted"]), "rank") # NoExc
    THEN Called(env.globals, Raised(GetItem(Columns(env.locals["df_sorted"]), "rank")))
    ELSE Called(env.globals,
                Returned(NoExc, "info",
                    LsoaInfo(env.locals["lsoa_data"][1][variable],
                             Matching(env.locals["df_sorted"], name)[1]["rank"],
                             Cardinality({env.locals["df_unique"][k].LSOA21NM :
                                             k \in 1..Len(env.locals["df_unique"])}),
                             env.locals["lsoa_data"][1].WardName)))

NotFound == "No information found for LSOA"

\* The element of a one-element set: a value that is built once and then
\* handed on.
TheOne(S) == CHOOSE x \in S : TRUE

\* display_lsoa_info once the name is stripped and upper-cased, lines 498-521
InfoFor(g, name, variable) ==
    IF Matching(g["df"], name) = <<>> THEN Called(g, Returned(NoExc, "text", NotFound))
    ELSE IF GetItem(Columns(g["df"]), variable) # NoExc
    THEN Called(g, Raised(GetItem(Columns(g["df"]), variable)))
    ELSE TheOne({ InfoReturn(after, name, variable) :
                    after \in { InfoRank(before, variable) :
                                   before \in {InfoFrames(g, name, variable)} } })

\* display_lsoa_info(n_clicks, lsoa_name, selected_variable), lines 492-522
display_lsoa_info(g, n, text, variable) ==
    IF n > 0 /\ text # <<>>
    THEN TheOne({InfoFor(g, name, variable) : name \in {Upper(Strip(text))}})
    ELSE Called(g, Returned(NoExc, "text", ""))

\* select_dtypes(include=[np.number]): the columns that hold numbers.
NumericColumns(frame) == Columns(frame) \cap {"total_crime", "index_right"}

AllBarnet == "All Barnet"

\* Lines 530-536: the rows the correlations are computed over.
CorrelationRows(frame, ward) ==
    IF ward # "" /\ ward # AllBarnet /\ RowsOfWard(frame, ward) # <<>>
    THEN RowsOfWard(frame, ward)
    ELSE frame

\* One scatter trace per numeric column (at most ten; their order, which the
\* correlation coefficients decide, is left out).
Traces(frame, variable) ==
    [c \in NumericColumns(frame) |-> [x |-> Column(frame, c), y |-> Column(frame, variable)]]

\* update_correlation_scatter_plot(selected_variable, selected_ward),
\* lines 528-580
update_correlation_scatter_plot(g, variable, ward) ==
    IF GetItem(NumericColumns(g["df"]), variable) # NoExc
    THEN Called(g, Raised(GetItem(NumericColumns(g["df"]), variable)))
    ELSE Called(g, Returned(NoExc, "scatter", Traces(CorrelationRows(g["df"], ward), variable)))

\* The answers of the police API the crime map is driven with.
ApiResponses ==
    {r \in Responses : r.body = <<>> \/ (Len(r.body) = 1 /\ r.body[1].category = "burglary")}

\* Line 272 binds crime_data in the function: the module's table of the same
\* name is not the one assigned.
CrimeMapFrames(g, resp) == Env(g, Bind(NoGlobals, "crime_data", fetch_crime_data(resp).df))

CrimeMapReturn(env, f, category) ==
    IF f.exc # NoExc THEN Called(env.globals, Raised(f.exc))
    ELSE IF RenderCrimeMap(env.locals["crime_data"], category).exc # NoExc
    THEN Called(env.globals, Raised(RenderCrimeMap(env.locals["crime_data"], category).exc))
    ELSE Called(env.globals,
                Returned(NoExc, "crime_map", RenderCrimeMap(env.locals["crime_data"], category)))

\* update_crime_map(n_clicks, date, selected_category) when line 271 lets
\* the fetch go ahead, lines 272-354
update_crime_map(g, category, resp) ==
    CrimeMapReturn(CrimeMapFrames(g, resp), fetch_crime_data(resp), category)

\* Line 355: nothing is fetched without a click and a date.
NothingSubmitted(g) ==
    Called(g, Returned(NoExc, "crime_map", Out(NoExc, "", <<AllCrime>>, <<>>)))

Invoked(f, n, t, v, w) == [fn |-> f, n_clicks |-> n, text |-> t, variable |-> v, ward |-> w]

\* Dash invokes update_bar_charts.
CallUpdateBarCharts ==
    /\ app_pc = "serving"
    /\ \E v \in VariableInputs :
          /\ call' = Invoked("update_bar_charts", 0, <<>>, v, "")
          /\ \E c \in {update_bar_charts(globals, v)} :
                globals' = c.globals /\ ret' = c.ret
    /\ UNCHANGED <<app_pc, documents, app_log, layout>>
    /\ UNCHANGED not_app_vars

\* Dash invokes update_variable_map.
CallUpdateVariableMap ==
    /\ app_pc = "serving"
    /\ \E v \in VariableInputs \cup {""} :
          /\ call' = Invoked("update_variable_map", 0, <<>>, v, "")
          /\ \E c \in {update_variable_map(globals, v)} :
                globals' = c.globals /\ ret' = c.ret
    /\ UNCHANGED <<app_pc, documents, app_log, layout>>
    /\ UNCHANGED not_app_vars

\* Dash invokes display_lsoa_info.
CallDisplayLsoaInfo ==
    /\ app_pc = "serving"
    /\ \E n \in 0..1, t \in LsoaInputs, v \in VariableInputs :
          /\ call' = Invoked("display_lsoa_info", n, t, v, "")
          /\ \E c \in {display_lsoa_info(globals, n, t, v)} :
                globals' = c.globals /\ ret' = c.ret
    /\ UNCHANGED <<app_pc, documents, app_log, layout>>
    /\ UNCHANGED not_app_vars

\* Dash invokes update_correlation_scatter_plot.
CallUpdateCorrelationScatterPlot ==
    /\ app_pc = "serving"
    /\ \E v \in VariableInputs, w \in {AllBarnet, WardNames[1], WardNames[2]} :
          /\ call' = Invoked("update_correlation_scatter_plot", 0, <<>>, v, w)
          /\ \E c \in {update_correlation_scatter_plot(globals, v, w)} :
                globals' = c.globals /\ ret' = c.ret
    /\ UNCHANGED <<app_pc, documents, app_log, layout>>
    /\ UNCHANGED not_app_vars

\* Dash invokes update_crime_map; the police API answers.
CallUpdateCrimeMap ==
    /\ app_pc = "serving"
    /\ \E n \in 0..1, d \in {"", "2024-01"}, cat \in {AllCrime, "burglary"} :
          /\ call' = Invoked("update_crime_map", n, <<>>, cat, d)
          /\ IF n > 0 /\ d # ""
             THEN \E resp \in ApiResponses :
                     \E c \in {update_crime_map(globals, cat, resp)} :
                        globals' = c.globals /\ ret' = c.ret
             ELSE \E c \in {NothingSubmitted(globals)} :
                     globals' = c.globals /\ ret' = c.ret
    /\ UNCHANGED <<app_pc, documents, app_log, layout>>
    /\ UNCHANGED not_app_vars

-----------------------------------------------------------------------------
(* Map callbacks served at the same time.  The development server and any  *)
(* multi-worker deployment of `server` answer requests concurrently; every *)
(* request runs its callback in the same working directory.  A callback is *)
(* three steps: build the map, save it (lines 346-347, 479-480), read the  *)
(* file back (lines 349-350, 482-483).                                     *)

MaxRequests == 2       \* requests in progress at the same time

Requests == 1..MaxRequests

\* The HTML folium renders for a map: it is a function of the callback and
\* of the arguments the map was built from.
Html(fn, arg) == [fn |-> fn, arg |-> arg]
NoHtml == Html("none", "")
NoDataHtml == Html("message", NoDataMessage)

\* The values the two map callbacks are invoked with.
MapVariables == {"", "total_crime", "Population"}
Dates == {"2024-01", "2024-02"}

\* map_file_path / crime_map_file_path
PathOf(fn) == IF fn = "update_variable_map" THEN VariableMapFile ELSE MapHtml

\* The file a callback saves its map to and reads it from: a fixed name,
\* whatever the arguments.
MapPaths == {VariableMapFile, MapHtml}

Request(f, a, at, h) == [fn |-> f, arg |-> a, pc |-> at, html |-> h]
NoRequest == Request("none", "", "idle", NoHtml)

FilesIdle ==
    /\ files = [path \in MapPaths |-> NoHtml]
    /\ requests = [r \in Requests |-> NoRequest]

\* update_variable_map up to line 477: the map object is built.
BuildVariableMap ==
    /\ \E r \in Requests, v \in MapVariables :
          /\ requests[r].pc = "idle"
          /\ requests' = [requests EXCEPT ![r] = Request("update_variable_map", v, "built", NoHtml)]
    /\ UNCHANGED files
    /\ UNCHANGED not_file_vars

\* update_crime_map up to line 344 when the fetch returned incidents, its
\* return at line 354 when it returned none.
BuildCrimeMap ==
    /\ \E r \in Requests, d \in Dates, incidents \in BOOLEAN :
          /\ requests[r].pc = "idle"
          /\ requests' = [requests EXCEPT ![r] =
                            IF incidents
                            THEN Request("update_crime_map", d, "built", NoHtml)
                            ELSE Request("update_crime_map", d, "returned", NoDataHtml)]
    /\ UNCHANGED files
    /\ UNCHANGED not_file_vars

\* m.save(map_file_path), lines 479-480 and 346-347.
SaveMap ==
    /\ \E r \in Requests :
          /\ requests[r].pc = "built"
          /\ files' = [files EXCEPT ![PathOf(requests[r].fn)] =
                          Html(requests[r].fn, requests[r].arg)]
          /\ requests' = [requests EXCEPT ![r].pc = "saved"]
    /\ UNCHANGED not_file_vars

\* open(map_file_path).read() and the return, lines 482-485 and 349-352.
ReadMap ==
    /\ \E r \in Requests :
          /\ requests[r].pc = "saved"
          /\ requests' = [requests EXCEPT
                            ![r].pc = "returned",
                            ![r].html = files[PathOf(requests[r].fn)]]
    /\ UNCHANGED files
    /\ UNCHANGED not_file_vars

-----------------------------------------------------------------------------
(* The parser called on its own, as the start-up pipeline does (line 67)   *)

ParseIdle ==
    /\ location_str = Text("garbage", TAbsent, TAbsent)
    /\ parse_pc = "idle"
    /\ parse_ret = Ret(NoExc, Null, Null)

ParseInit ==
    /\ location_str \in RawInputs
    /\ parse_pc = "call"
    /\ parse_ret = Ret(NoExc, Null, Null)

ExtractLatLon ==
    /\ parse_pc = "call"
    /\ parse_ret' = extract_lat_lon(location_str)
    /\ parse_pc' = IF parse_ret'.exc = NoExc THEN "returned" ELSE "raised"
    /\ UNCHANGED location_str
    /\ UNCHANGED not_parse_vars

-----------------------------------------------------------------------------
(* Specifications                                                          *)

\* extract_lat_lon applied to one raw location.
InitParse == ParseInit /\ CrimeInit /\ JoinIdle /\ ColorIdle /\ AppIdle /\ FilesIdle
NextParse == ExtractLatLon
SpecParse == InitParse /\ [][NextParse]_vars

\* One invocation of update_crime_map with its live fetch.
InitCrime == CrimeInit /\ ParseIdle /\ JoinIdle /\ ColorIdle /\ AppIdle /\ FilesIdle
NextCrime == SubmitDate \/ HttpGet \/ FetchCrimeData \/ UpdateCrimeMap
SpecCrime == InitCrime /\ [][NextCrime]_vars

\* The start-up load and join of the two boundary collections.
InitJoin == JoinInit /\ ParseIdle /\ CrimeInit /\ ColorIdle /\ AppIdle /\ FilesIdle
NextJoin == LoadGeoJson \/ SpatialJoin
SpecJoin == InitJoin /\ [][NextJoin]_vars

\* One rendering of the variable map, and get_color applied to a value.
InitColor == ColorIdle /\ ParseIdle /\ CrimeInit /\ JoinIdle /\ AppIdle /\ FilesIdle
NextColor == UpdateVariableMap \/ GetColor
SpecColor == InitColor /\ [][NextColor]_vars

\* The module from import on: the load, the layout, then any callbacks.
InitStartup == AppInit /\ ParseIdle /\ CrimeInit /\ JoinIdle /\ ColorIdle /\ FilesIdle
NextStartup ==
    \/ LoadGeoJsonFiles
    \/ ProcessGeoDataFrames
    \/ LoadCrimeData
    \/ ProcessCrimeData
    \/ BuildLayout
SpecStartup == InitStartup /\ [][NextStartup]_vars

\* The module from import on, then any callbacks in any order.
InitApp == AppInit /\ ParseIdle /\ CrimeInit /\ JoinIdle /\ ColorIdle /\ FilesIdle
NextApp ==
    \/ LoadGeoJsonFiles
    \/ ProcessGeoDataFrames
    \/ LoadCrimeData
    \/ ProcessCrimeData
    \/ BuildLayout
    \/ CallUpdateBarCharts
    \/ CallUpdateVariableMap
    \/ CallDisplayLsoaInfo
    \/ CallUpdateCorrelationScatterPlot
    \/ CallUpdateCrimeMap
SpecApp == InitApp /\ [][NextApp]_vars

\* Map callbacks of several requests, their steps interleaved.
InitFiles == FilesIdle /\ ParseIdle /\ CrimeInit /\ JoinIdle /\ ColorIdle /\ AppIdle
NextFiles == BuildVariableMap \/ BuildCrimeMap \/ SaveMap \/ ReadMap
SpecFiles == InitFiles /\ [][NextFiles]_vars

-----------------------------------------------------------------------------
(* Claims about the coordinate parser and the live fetch                   *)

IsFloatPair(r) == ~r.lat.isnull /\ ~r.lon.isnull
IsNullPair(r)  == r.lat.isnull /\ r.lon.isnull

\* C1: for every raw location string, extract_lat_lon returns two floats or
\* the null pair, and no exception escapes to the caller (null marker,
\* missing key, malformed or non-mapping input included).
C1_ParserNeverRaises ==
    parse_pc # "call" =>
        /\ parse_ret.exc = NoExc
        /\ IsFloatPair(parse_ret) \/ IsNullPair(parse_ret)

\* The outcomes of the HTTP request that are a failed fetch.
FetchFailed(r) ==
    \/ r.kind = "exception"
    \/ r.kind = "http" /\ (r.status # HTTP_OK \/ ~r.parses)

Fetching == pc \in {"rendering", "done"} /\ response.kind # "none"

\* C2: whatever the month and however the HTTP request fails (non-200
\* status, network exception, unparseable body), fetch_crime_data returns an
\* empty result, records a diagnostic log entry and raises nothing.
C2_FetchFailureIsEmptyAndLogged ==
    (Fetching /\ FetchFailed(response)) =>
        /\ fetch_exc = NoExc
        /\ crime_data = EmptyDataFrame
        /\ log # <<>>

\* C2 witness: the invalid month 2024-13 was fetched, the API answered 404
\* and the fetch has returned.
C2_Witness ==
    /\ pc = "rendering"
    /\ date_input = "2024-13"
    /\ response.kind = "http" /\ response.status \in NonOkStatuses
    /\ crime_data = EmptyDataFrame
    /\ log # <<>>

\* An incident whose location holds two coordinates, read off the JSON.
IsNumber(v) == v.t \in {"strnum", "num"}
ParseableIncident(inc) ==
    /\ inc.location.t = "dict"
    /\ IsNumber(inc.location.lat)
    /\ IsNumber(inc.location.lon)

Incident(row) == [category |-> row.category, location |-> row.location]
ReturnedIncidents == [i \in 1..Len(crime_data.rows) |-> Incident(crime_data.rows[i])]

\* C3: on a status-200 fetch the returned frame holds exactly the incidents
\* of the response whose location parses to two coordinates, the others
\* being dropped, whatever the mix.
C3_ReturnsExactlyParseable ==
    (Fetching /\ response.kind = "http" /\ response.status = HTTP_OK /\ response.parses) =>
        ReturnedIncidents = SelectSeq(response.body, ParseableIncident)

\* C4: a submitted date whose fetch fails or yields no incident ends in the
\* empty-result message with dropdown options, and the callback does not raise.
C4_NoResultsMessage ==
    (/\ pc = "done"
     /\ n_clicks > 0 /\ date_input # ""
     /\ FetchFailed(response) \/ crime_data.rows = <<>>) =>
        /\ cb_out.exc = NoExc
        /\ cb_out.html = NoDataMessage
        /\ cb_out.options # <<>>

-----------------------------------------------------------------------------
(* Claims about the spatial join                                           *)

Joined == load_pc = "joined"

\* Geometry read off the inputs: the two closed polygons have a common point.
SharePoint(a, b) == \E x \in Axis : a.lo <= x /\ x <= a.hi /\ b.lo <= x /\ x <= b.hi

WardsAt(i) == {j \in 1..Len(wards_gdf) : SharePoint(lsoa_gdf[i].geometry, wards_gdf[j].geometry)}
RowsFor(i) == {k \in 1..Len(df) : df[k].index = i}

SameAreaFields(row, area) ==
    /\ row.LSOA21CD = area.LSOA21CD
    /\ row.LSOA21NM = area.LSOA21NM
    /\ row.total_crime = area.total_crime

\* C5: every small area appears at least once in the joined table df, and
\* every joined row carries the attribute values of the small area it comes
\* from, unaltered.
C5_JoinComplete ==
    Joined =>
        /\ \A i \in 1..Len(lsoa_gdf) : RowsFor(i) # {}
        /\ \A k \in 1..Len(df) :
              /\ df[k].index \in 1..Len(lsoa_gdf)
              /\ SameAreaFields(df[k], lsoa_gdf[df[k].index])

\* C5 witness: a joined table in which one small area has no ward and
\* another has several.
C5_Witness ==
    /\ Joined
    /\ \E i \in 1..Len(lsoa_gdf) : WardsAt(i) = {}
    /\ \E i \in 1..Len(lsoa_gdf) : Cardinality(WardsAt(i)) > 1
    /\ Len(df) > Len(lsoa_gdf)

\* C6: a small area that intersects no ward has exactly one joined row, and
\* that row's ward name, ward code and join index are null.
C6_UnmatchedOneNullRow ==
    Joined =>
        \A i \in 1..Len(lsoa_gdf) :
            WardsAt(i) = {} =>
                /\ Cardinality(RowsFor(i)) = 1
                /\ \A k \in RowsFor(i) :
                      /\ df[k].WardName.isnull
                      /\ df[k].ONSWardCode.isnull
                      /\ df[k].index_right.isnull

\* C6 witness: the join has run on a small area apart from every ward.
C6_Witness ==
    /\ Joined
    /\ \E i \in 1..Len(lsoa_gdf) :
          /\ WardsAt(i) = {}
          /\ \E k \in RowsFor(i) : df[k].WardName = NullStr

\* C7: a small area that intersects two wards (touching a boundary counts)
\* has exactly two joined rows, one per matching ward, and the two rows
\* differ only in their ward fields.
C7_TwoWardsTwoRows ==
    Joined =>
        \A i \in 1..Len(lsoa_gdf) :
            Cardinality(WardsAt(i)) = 2 =>
                /\ Cardinality(RowsFor(i)) = 2
                /\ \A k \in RowsFor(i) : SameAreaFields(df[k], lsoa_gdf[i])
                /\ {df[k].WardName : k \in RowsFor(i)} =
                      {Cell(wards_gdf[j].WardName) : j \in WardsAt(i)}
                /\ {df[k].ONSWardCode : k \in RowsFor(i)} =
                      {Cell(wards_gdf[j].ONSWardCode) : j \in WardsAt(i)}
                /\ {df[k].index_right : k \in RowsFor(i)} = {Cell(j - 1) : j \in WardsAt(i)}

\* C7 witness: the join has run on a small area that overlaps one ward and
\* only touches the boundary of another.
C7_Witness ==
    /\ Joined
    /\ \E i \in 1..Len(lsoa_gdf) :
          /\ Cardinality(WardsAt(i)) = 2
          /\ \E j \in WardsAt(i) : lsoa_gdf[i].geometry.hi = wards_gdf[j].geometry.lo
          /\ \E j \in WardsAt(i) : lsoa_gdf[i].geometry.lo < wards_gdf[j].geometry.hi
                                   /\ wards_gdf[j].geometry.lo < lsoa_gdf[i].geometry.hi
          /\ Cardinality(RowsFor(i)) = 2

-----------------------------------------------------------------------------
(* Claims about the colour function                                        *)

Rendered == map_pc = "rendered" /\ selected_variable # ""

\* The tiers whose threshold is at least the value, read off the state.
TiersAtLeast(v) == {i \in 1..Len(thresholds) : thresholds[i] >= Scale * v}
Least(S) == CHOOSE x \in S : \A y \in S : x <= y

\* The colour the rule "first tier whose threshold >= value, else the last
\* tier" gives.
ColorByRule(v) ==
    IF TiersAtLeast(v) = {} THEN colors[Tiers] ELSE colors[Least(TiersAtLeast(v))]

ColorSet == {colors[i] : i \in 1..Tiers}

\* C8: for every value get_color returns the colour of the first tier, in
\* ascending order, whose threshold is >= the value, the last tier's colour
\* when there is none, and so always one of the ten fixed colours.
C8_ColorIsFirstTierAtLeast ==
    Rendered =>
        /\ \A i \in 1..Len(values) :
              fill_colors[i] = ColorByRule(values[i]) /\ fill_colors[i] \in ColorSet
        /\ probe_color # "" =>
              probe_color = ColorByRule(probe) /\ probe_color \in ColorSet

\* C8 witness: get_color has returned for a value above every threshold and
\* a feature lies in a tier that is neither the first nor the last.
C8_Witness ==
    /\ Rendered
    /\ probe_color = colors[Tiers]
    /\ TiersAtLeast(probe) = {}
    /\ \E i \in 1..Len(values) : fill_colors[i] \notin {colors[1], colors[Tiers]}

\* C9: for the values 1..100 the 10th-percentile threshold is 10.9 (linear
\* interpolation at rank p/100 * (n-1)), the value 1 gets the first tier's
\* colour and the value 100 the last tier's.
C9_OneToHundred ==
    (Rendered /\ values = OneToHundred) =>
        /\ thresholds[1] = 109
        /\ fill_colors[1] = colors[1]
        /\ fill_colors[100] = colors[Tiers]

\* C9 witness: the map has been rendered for the values 1..100.
C9_Witness ==
    /\ Rendered
    /\ values = OneToHundred
    /\ Len(thresholds) = Tiers
    /\ Len(fill_colors) = 100

DistinctValues == {values[i] : i \in 1..Len(values)}

\* C10: when the values hold one distinct value only, all ten thresholds
\* equal that value and every value of the input gets the first tier's colour.
C10_Degenerate ==
    (Rendered /\ Cardinality(DistinctValues) = 1) =>
        /\ \A i \in 1..Tiers : thresholds[i] = Scale * values[1]
        /\ \A i \in 1..Len(values) : fill_colors[i] = colors[1]

\* C10 witness: the map has been rendered for several features that all hold
\* the same value.
C10_Witness ==
    /\ Rendered
    /\ Len(values) > 1
    /\ Cardinality(DistinctValues) = 1
    /\ Len(fill_colors) = Len(values)

-----------------------------------------------------------------------------
(* Claims about the start-up                                               *)

StartupOver == app_pc \in {"serving", "crashed"}

Failed(doc) == doc.status \notin {"ok", "none"}

\* The tabs a document feeds: the crime table feeds the crime heatmap, the
\* two boundary documents feed the other three.
TabsOf(d) ==
    IF d = "crime" THEN {"Barnet Crime Heatmap"}
    ELSE {"LSOA Variable Heatmap", "Bar Charts", "Correlations"}

\* What a tab shows once start-up is over.
TabState(t) == IF layout.built THEN "ready" ELSE "absent"

\* C11: a start-up document that cannot be retrieved or parsed is fatal to
\* its own stage only: the process does not crash, and every tab the
\* document feeds ends in an explicit "data unavailable" state.
C11_LoadFailureIsContained ==
    StartupOver =>
        \A d \in {"lsoa", "wards", "crime"} :
            Failed(documents[d]) =>
                /\ app_pc # "crashed"
                /\ \A t \in TabsOf(d) : TabState(t) = "data unavailable"

-----------------------------------------------------------------------------
(* Claims about the callbacks on the joined table                          *)

Serving == app_pc = "serving"

\* The attribute names the loaded documents define: the columns of the
\* joined table and the properties of the LSOA features.
LoadedSchema ==
    Columns(globals["df"])
        \cup UNION { Properties(globals["lsoa_geojson_data"].features[k]) :
                        k \in 1..Len(globals["lsoa_geojson_data"].features) }

VariableDriven ==
    {"update_bar_charts", "update_variable_map", "update_correlation_scatter_plot"}

\* C12: a variable-driven callback (update_bar_charts, update_variable_map,
\* update_correlation_scatter_plot) asked for an attribute that is absent
\* from the loaded schema ends with an error and returns no chart or map.
C12_AbsentAttributeFailsLoudly ==
    (/\ Serving
     /\ call.fn \in VariableDriven
     /\ call.variable # ""
     /\ call.variable \notin LoadedSchema) =>
        /\ ret.exc \in {"ValueError", "KeyError"}
        /\ ret.kind = "none"

\* C12 witness: update_variable_map has been asked for an attribute that no
\* feature has and has raised KeyError.
C12_Witness ==
    /\ Serving
    /\ call.fn = "update_variable_map"
    /\ call.variable = AbsentVariable
    /\ call.variable \notin LoadedSchema
    /\ ret.exc = "KeyError"

\* What the load bound each shared name to, read off the documents.
AsLoaded(name) ==
    CASE name = "df" -> DropGeometry(sjoin(documents.lsoa.body, documents.wards.body))
      [] name = "lsoa_geojson_data" -> GeoJson(documents.lsoa)
      [] name = "wards_geojson_data" -> GeoJson(documents.wards)
      [] OTHER -> [has_location |-> TRUE, rows |-> WithCoordinates(documents.crime.body)]

SharedTables == {"df", "lsoa_geojson_data", "wards_geojson_data", "crime_data"}

\* C13: once the module is serving, the shared tables (df, the two GeoJSON
\* documents, the static crime table) hold what the load put in them, after
\* any sequence of callbacks with any arguments.
C13_SharedTablesReadOnly ==
    Serving =>
        \A name \in SharedTables : Bound(globals, name) /\ globals[name] = AsLoaded(name)

\* C13 witness: display_lsoa_info has computed a rank over a table that has
\* several rows for one small area.
C13_Witness ==
    /\ Serving
    /\ call.fn = "display_lsoa_info"
    /\ ret.kind = "info"
    /\ Len(globals["df"]) > Len(documents.lsoa.body)

Areas == 1..Len(documents.lsoa.body)
Area(i) == documents.lsoa.body[i]

\* The bar marks drawn at one small area's name.
MarksAt(i) == {k \in 1..Len(ret.out.lsoa_fig) : ret.out.lsoa_fig[k].x = Area(i).LSOA21NM}

\* C14: per-area statistics count every small area once, also when the
\* joined table has several rows for it: display_lsoa_info reports
\* 1 <= rank <= total with total the number of distinct small areas, and the
\* per-LSOA bar chart shows each small area's value once.
C14_PerAreaStatistics ==
    Serving =>
        /\ (call.fn = "display_lsoa_info" /\ ret.kind = "info") =>
              /\ 1 <= ret.out.rank
              /\ ret.out.rank <= ret.out.total
              /\ ret.out.total = Cardinality(Areas)
        /\ (call.fn = "update_bar_charts" /\ ret.kind = "figures") =>
              \A i \in Areas :
                  /\ Cardinality(MarksAt(i)) = 1
                  /\ \A k \in MarksAt(i) : ret.out.lsoa_fig[k].y = Area(i)[call.variable]

\* The rank of small area i among all small areas, the largest value first.
RankOfArea(i, variable) ==
    1 + Cardinality({j \in Areas : Area(j)[variable] > Area(i)[variable]})

\* The ward cells the joined table holds for small area i.
WardCellsOf(i) ==
    {globals["df"][k].WardName : k \in {r \in 1..Len(globals["df"]) : globals["df"][r].index = i}}

\* C16: the value, the rank and the ward name display_lsoa_info reports
\* belong to one and the same small area, for every submitted name that
\* matches a row, a name contained in several LSOA names included.
C16_OneAreaReported ==
    (Serving /\ call.fn = "display_lsoa_info" /\ ret.kind = "info") =>
        \E i \in Areas :
            /\ ret.out.value = Area(i)[call.variable]
            /\ ret.out.rank = RankOfArea(i, call.variable)
            /\ ret.out.ward \in WardCellsOf(i)

-----------------------------------------------------------------------------
(* Claims about concurrent map callbacks                                   *)

\* C15: whatever the interleaving of the map callbacks of two requests, a
\* callback that saved a map returns the HTML rendered for its own
\* arguments, never what another invocation wrote to the fixed-name file
\* between this invocation's save and its read.
C15_ReturnsOwnMap ==
    \A r \in Requests :
        (requests[r].pc = "returned" /\ requests[r].html # NoDataHtml) =>
            requests[r].html = Html(requests[r].fn, requests[r].arg)

=============================================================================
